---- MODULE Spec2Model ----
(***************************************************************************)
(* State-machine model of the retrieval index of queer-sim-backend:        *)
(* RAGIndex (rag_index.py) and ShowIndex (show_kb.py): the segment         *)
(* parsers, the content fingerprint, the three cache artifacts on disk and *)
(* the load_directory / build_from_srt operation with its await points,    *)
(* and the queries on the built index.                                     *)
(*                                                                         *)
(* Text is modelled line by line.  A file is a sequence of lines, a line   *)
(* is an atom [k, a, b]:                                                   *)
(*   blank        the empty line (two consecutive newlines around it)      *)
(*   ws           a line of whitespace only                                *)
(*   num  a       a line of digits whose value is a                        *)
(*   time a b     a line "<a> --> <b>", a and b timecodes (BadTc: a        *)
(*                timecode that _TIME_RE does not match)                   *)
(*   word a       a line of text, a names the text                         *)
(*   id   a b     a line whose text is exactly the segment id of prefix a  *)
(*                and index b                                              *)
(*   cap  a b     the header line of a frame caption: a the seconds it     *)
(*                states, b the number of the frame file it names          *)
(* A timecode "HH:MM:SS,mmm" is the number HHMMSSmmm.                      *)
(***************************************************************************)
EXTENDS Integers, Sequences, FiniteSets, TLC

L(k, a, b) == [k |-> k, a |-> a, b |-> b]
Blank == L("blank", 0, 0)
Ws == L("ws", 0, 0)
Num(n) == L("num", n, 0)
Time(s, e) == L("time", s, e)
Word(w) == L("word", w, 0)
IdLine(p, i) == L("id", p, i)

BadTc == 0 - 1

(* ------------------------------------------------------------------ *)
(* Pure helpers of rag_index.py / show_kb.py                           *)
(* ------------------------------------------------------------------ *)

\* _tc_to_seconds, in milliseconds; defined for timecodes _TIME_RE matches
_tc_to_seconds(tc) ==
    LET ms == tc % 1000
        ss == (tc \div 1000) % 100
        mm == (tc \div 100000) % 100
        hh == tc \div 10000000
    IN  (hh * 3600 + mm * 60 + ss) * 1000 + ms

\* (mutant) only the empty line counts as whitespace
NotBlank(l) == l.k # "blank"

\* bool(ln.strip()): the line has a character that is not whitespace
NotSpace(l) == l.k \notin {"ws", "blank"}

RECURSIVE StripLeft(_)
StripLeft(ls) ==
    IF ls = <<>> THEN <<>>
    ELSE IF NotSpace(Head(ls)) THEN ls ELSE StripLeft(Tail(ls))

RECURSIVE StripRight(_)
StripRight(ls) ==
    IF ls = <<>> THEN <<>>
    ELSE IF NotSpace(ls[Len(ls)]) THEN ls ELSE StripRight(SubSeq(ls, 1, Len(ls) - 1))

\* str.strip() of a piece of text given as its lines
Strip(ls) == StripRight(StripLeft(ls))

\* _normalize_text of a text given as its lines: the words in order, whitespace
\* runs (line breaks included) collapsed
_normalize_text(ls) == SelectSeq(ls, NotSpace)

RECURSIVE SplitBlank(_)
\* content.split("\n\n"): the pieces between blank lines
SplitBlank(ls) ==
    IF ls = <<>> THEN << <<>> >>
    ELSE LET rest == SplitBlank(Tail(ls))
         IN  IF Head(ls).k = "blank"
             THEN << <<>> >> \o rest
             ELSE << <<Head(ls)>> \o Head(rest) >> \o Tail(rest)

NonEmpty(ls) == ls # <<>>

\* [b.strip() for b in content.split("\n\n") if b.strip()]
Chunks(content) ==
    LET pieces == SplitBlank(content)
        stripped == [i \in 1..Len(pieces) |-> Strip(pieces[i])]
    IN  SelectSeq(stripped, NonEmpty)

\* the md5-derived prefix load_directory gives a file: one per path
PrefixOf(path) ==
    CASE path = "ep1.srt" -> 1
      [] path = "notes.txt" -> 2
      [] OTHER -> 3

\* RAGSeg / ShowSeg.  raw is a sequence of lines, a line a sequence of atoms
\* joined by single spaces; text is the normalized word sequence.
SrtSeg(path, prefix, idx, time_line, text_lines) ==
    [seg_id |-> <<prefix, idx>>,
     file_path |-> path,
     text |-> _normalize_text(text_lines),
     raw |-> << text_lines >>,
     metadata |-> [type |-> "srt",
                   start_tc |-> time_line.a,
                   end_tc |-> time_line.b,
                   start_s |-> _tc_to_seconds(time_line.a),
                   end_s |-> _tc_to_seconds(time_line.b)]]

TxtSeg(path, prefix, i, c) ==
    [seg_id |-> <<prefix, i>>,
     file_path |-> path,
     text |-> _normalize_text(c),
     raw |-> [j \in 1..Len(c) |-> <<c[j]>>],
     metadata |-> [type |-> "txt"]]

RECURSIVE SrtBlocks(_, _, _, _, _)
\* the block loop of _parse_srt; guarded: the try/except of RAGIndex._parse_srt
\* around the timecode parse, which ShowIndex._parse_srt does not have.
\* Result: [ok |-> FALSE] when the parse raises.
SrtBlocks(blocks, out, path, prefix, guarded) ==
    IF blocks = <<>> THEN [ok |-> TRUE, segs |-> out]
    ELSE
      LET lines == SelectSeq(Head(blocks), NotSpace)
          rest == Tail(blocks)
          headed == Len(lines) >= 1 /\ lines[1].k = "time"
      IN  IF Len(lines) < 2 THEN SrtBlocks(rest, out, path, prefix, guarded)
          ELSE IF ~headed /\ (Len(lines) < 3 \/ lines[2].k # "time")
          THEN SrtBlocks(rest, out, path, prefix, guarded)
          ELSE
            LET idx == IF headed THEN Len(out) + 1
                       ELSE IF lines[1].k = "num" THEN lines[1].a ELSE Len(out) + 1
                time_line == IF headed THEN lines[1] ELSE lines[2]
                text_lines == SubSeq(lines, IF headed THEN 2 ELSE 3, Len(lines))
                bad == time_line.a = BadTc \/ time_line.b = BadTc
            IN  IF bad
                THEN IF guarded THEN SrtBlocks(rest, out, path, prefix, guarded)
                     ELSE [ok |-> FALSE, segs |-> <<>>]
                ELSE SrtBlocks(rest,
                               Append(out, SrtSeg(path, prefix, idx, time_line, text_lines)),
                               path, prefix, guarded)

\* RAGIndex._parse_srt
_parse_srt(path, content, prefix) == SrtBlocks(Chunks(content), <<>>, path, prefix, TRUE)

\* ShowIndex._parse_srt
Show_parse_srt(path, content, prefix) == SrtBlocks(Chunks(content), <<>>, path, prefix, FALSE)

\* RAGIndex._parse_txt (and _parse_md): chunk i (from 0) becomes segment prefix-i
_parse_txt(path, content, prefix) ==
    LET chunks == Chunks(content)
        all == [i \in 1..Len(chunks) |-> TxtSeg(path, prefix, i - 1, chunks[i])]
        Kept(s) == s.text # <<>>
    IN  [ok |-> TRUE, segs |-> SelectSeq(all, Kept)]

RECURSIVE Stream(_)
\* the bytes _fingerprint feeds to sha256, as lines: for each segment its id,
\* a newline, its raw text, a newline
Stream(segs) ==
    IF segs = <<>> THEN <<>>
    ELSE << <<IdLine(Head(segs).seg_id[1], Head(segs).seg_id[2])>> >>
         \o Head(segs).raw \o Stream(Tail(segs))

\* _fingerprint: sha256 of the stream, taken as collision free
_fingerprint(segs) == [sha256 |-> Stream(segs)]


(* ------------------------------------------------------------------ *)
(* Bounds and the corpora the directory is drawn from                  *)
(* ------------------------------------------------------------------ *)

\* batch_size of load_directory / build_from_srt (64 in the code), scaled down
BatchSize == 1
\* longest plain-text file, in lines, of the fingerprint study (SpecFp)
MaxTxtLines == 3

\* the callers that may hold a load_directory frame on the one shared index
Tasks == {1, 2}

Min(a, b) == IF a < b THEN a ELSE b

SrtPath == "ep1.srt"
TxtPath == "notes.txt"
CapPath == "captions.zh.txt"

\* "Hello there" 00:00:01,000 --> 00:00:02,000 and "Goodbye now"
\* 00:01:00,000 --> 00:01:02,000, two numbered blocks
SrtHello == << Num(1), Time(1000, 2000), Word("hello"), Blank,
               Num(2), Time(100000, 102000), Word("bye") >>
\* one block without an index line
SrtShort == << Time(1000, 2000), Word("bye") >>
\* one block whose start timecode does not parse
SrtGarbled == << Num(1), Time(BadTc, 2000), Word("hello") >>

\* the subtitle files the corpus directory is given in Spec
SrtCorpus == {SrtHello, SrtShort, SrtGarbled}

(* ------------------------------------------------------------------ *)
(* Directory walk, embedding provider, cache artifacts                 *)
(* ------------------------------------------------------------------ *)

\* one file of the walk of load_directory, routed by its extension
ParseFile(f) ==
    IF f.path = SrtPath THEN _parse_srt(f.path, f.content, PrefixOf(f.path))
    ELSE IF f.path \in {TxtPath, CapPath}
    THEN _parse_txt(f.path, f.content, PrefixOf(f.path))
    ELSE [ok |-> TRUE, segs |-> <<>>]

RECURSIVE WalkSegs(_)
\* the os.walk loop of load_directory: the files in the order the walk yields
WalkSegs(files) ==
    IF files = <<>> THEN <<>>
    ELSE ParseFile(Head(files)).segs \o WalkSegs(Tail(files))

IsSrt(f) == f.path = SrtPath

RECURSIVE ShowSegs(_)
\* the srt_files loop of build_from_srt; a raising _parse_srt raises the call
ShowSegs(files) ==
    IF files = <<>> THEN [ok |-> TRUE, segs |-> <<>>]
    ELSE LET one == Show_parse_srt(Head(files).path, Head(files).content,
                                   PrefixOf(Head(files).path))
             rest == ShowSegs(Tail(files))
         IN  IF one.ok /\ rest.ok THEN [ok |-> TRUE, segs |-> one.segs \o rest.segs]
             ELSE [ok |-> FALSE, segs |-> <<>>]

\* the embedding provider: one vector per text, equal texts equal vectors
_embed_fn(batch) == [j \in 1..Len(batch) |-> [of |-> batch[j], unit |-> FALSE]]

\* emb / (norm + 1e-9): every row scaled to unit length
L2Normalize(rows) == [j \in 1..Len(rows) |-> [rows[j] EXCEPT !.unit = TRUE]]

\* the normalized matrix of a segment list
RowsOf(ss) == L2Normalize(_embed_fn([j \in 1..Len(ss) |-> ss[j].text]))

\* json.dumps(asdict(s)) and RAGSeg(**json.loads(line))
DumpSeg(s) == [json |-> s]

\* (mutant) the record read back without its kind-specific metadata
LoadSegNoMetadata(line) == [line.json EXCEPT !.metadata = [type |-> line.json.metadata.type]]

LoadSeg(line) == line.json

None == [st |-> "none"]
Absent == [st |-> "absent"]
Torn == [st |-> "torn"]

MetaOf(fp, n) == [st |-> "ok", fingerprint |-> fp, count |-> n]
EmbFileOf(m) == [st |-> "ok", rows |-> m.rows]
SegFileOf(ss, k, torn) ==
    [st |-> "ok", lines |-> [j \in 1..k |-> DumpSeg(ss[j])], torn |-> torn]

\* (mutant) the cache-hit attempt with force_rebuild not looked at
CacheReadIgnoresForce(force, fp, meta, embf, segf, curSegs, curEmb) ==
    LET loaded == [j \in 1..Len(segf.lines) |-> LoadSeg(segf.lines[j])]
    IN  IF meta.st = "absent" \/ embf.st = "absent" \/ segf.st = "absent"
        THEN [hit |-> FALSE, err |-> "no", segs |-> curSegs, emb |-> curEmb]
        ELSE IF meta.st = "torn"
        THEN [hit |-> FALSE, err |-> "meta", segs |-> curSegs, emb |-> curEmb]
        ELSE IF meta.fingerprint # fp
        THEN [hit |-> FALSE, err |-> "no", segs |-> curSegs, emb |-> curEmb]
        ELSE IF segf.torn
        THEN [hit |-> FALSE, err |-> "segs", segs |-> loaded, emb |-> curEmb]
        ELSE IF embf.st = "torn"
        THEN [hit |-> FALSE, err |-> "emb", segs |-> loaded, emb |-> curEmb]
        ELSE [hit |-> TRUE, err |-> "no", segs |-> loaded,
              emb |-> [st |-> "ok", rows |-> embf.rows]]

\* the cache-hit attempt of load_directory (lines 168-182) and of
\* build_from_srt (lines 124-137): what it leaves in self.segs / self._emb,
\* whether it returned the cached index (hit) and which read raised (err)
CacheRead(force, fp, meta, embf, segf, curSegs, curEmb) ==
    LET loaded == [j \in 1..Len(segf.lines) |-> LoadSeg(segf.lines[j])]
    IN  IF force \/ meta.st = "absent" \/ embf.st = "absent" \/ segf.st = "absent"
        THEN [hit |-> FALSE, err |-> "no", segs |-> curSegs, emb |-> curEmb]
        ELSE IF meta.st = "torn"
        THEN [hit |-> FALSE, err |-> "meta", segs |-> curSegs, emb |-> curEmb]
        ELSE IF meta.fingerprint # fp
        THEN [hit |-> FALSE, err |-> "no", segs |-> curSegs, emb |-> curEmb]
        ELSE IF segf.torn
        THEN [hit |-> FALSE, err |-> "segs", segs |-> loaded, emb |-> curEmb]
        ELSE IF embf.st = "torn"
        THEN [hit |-> FALSE, err |-> "emb", segs |-> loaded, emb |-> curEmb]
        ELSE [hit |-> TRUE, err |-> "no", segs |-> loaded,
              emb |-> [st |-> "ok", rows |-> embf.rows]]

(* ------------------------------------------------------------------ *)
(* State                                                               *)
(* ------------------------------------------------------------------ *)

VARIABLES
    cls,       \* the class of the index object: "RAGIndex" or "ShowIndex"
    dir,       \* the corpus directory: [exists, files], files in walk order
    metaFile,  \* <name>.meta.json
    embFile,   \* <name>.emb.npy
    segFile,   \* <name>.segs.jsonl
    segs,      \* self.segs
    emb,       \* self._emb
    task,      \* per caller: the frame of its load_directory call
    last,      \* history: the latest step of a call (NoStep after any other step)
    cacheOf,   \* history: the completed build that wrote the three artifacts
    probe,     \* the fingerprint study (SpecFp): two directory states compared
    query,     \* the query in progress or just answered, and its result
    parse,     \* the parser study (SpecParse): a file content and what a parser returned
    render,    \* the renderer study (SpecRender): the hits given and the text returned
    story,     \* the RoleArena story state (rolearena_state.py) and its call history
    session    \* the ADK session state (state.py): room histories and outbox

vars == <<cls, dir, metaFile, embFile, segFile, segs, emb, task, last, cacheOf, probe, query,
          parse, render, story, session>>

disk == <<metaFile, embFile, segFile>>

\* the state that is no part of the index object
outside == <<parse, render, story, session>>

IdleTask == [pc |-> "idle"]
NoStep == [ev |-> "none"]
NoBuild == [ok |-> FALSE]
NoProbe == [on |-> FALSE]
NoQuery == [op |-> "none", ev |-> "none", args |-> <<>>, hits |-> <<>>, calls |-> 0,
            pend |-> {}, extracted |-> FALSE, frames |-> <<>>]
NoParse == [on |-> FALSE]
NoRender == [on |-> FALSE]
NoStory == [on |-> FALSE]
NoSession == [on |-> FALSE]

\* nothing outside the index object is in use
Unused ==
    /\ parse = NoParse
    /\ render = NoRender
    /\ story = NoStory
    /\ session = NoSession

EmptyDir == [exists |-> TRUE, files |-> <<>>]

Init ==
    /\ cls \in {"RAGIndex", "ShowIndex"}
    /\ dir = EmptyDir
    /\ metaFile = Absent
    /\ embFile = Absent
    /\ segFile = Absent
    /\ segs = <<>>
    /\ emb = None
    /\ task = [t \in Tasks |-> IdleTask]
    /\ last = NoStep
    /\ cacheOf = NoBuild
    /\ probe = NoProbe
    /\ query = NoQuery
    /\ Unused

(* ------------------------------------------------------------------ *)
(* The corpus directory changes under the index                        *)
(* ------------------------------------------------------------------ *)

HasFile(files, p) == \E j \in 1..Len(files) : files[j].path = p

\* a file is created or rewritten
WriteFile(p, c) ==
    /\ dir.exists
    /\ LET f == [path |-> p, content |-> c]
           files2 == IF HasFile(dir.files, p)
                     THEN [j \in 1..Len(dir.files) |->
                             IF dir.files[j].path = p THEN f ELSE dir.files[j]]
                     ELSE Append(dir.files, f)
       IN  /\ files2 # dir.files
           /\ dir' = [dir EXCEPT !.files = files2]
    /\ last' = NoStep
    /\ UNCHANGED <<cls, disk, segs, emb, task, cacheOf, probe, query, outside>>

\* a file is deleted
RemoveFile(p) ==
    /\ dir.exists
    /\ HasFile(dir.files, p)
    /\ LET Other(f) == f.path # p
       IN  dir' = [dir EXCEPT !.files = SelectSeq(dir.files, Other)]
    /\ last' = NoStep
    /\ UNCHANGED <<cls, disk, segs, emb, task, cacheOf, probe, query, outside>>

\* the directory is removed, or made again
ToggleDir ==
    /\ dir' = IF dir.exists THEN [exists |-> FALSE, files |-> <<>>] ELSE EmptyDir
    /\ last' = NoStep
    /\ UNCHANGED <<cls, disk, segs, emb, task, cacheOf, probe, query, outside>>

(* ------------------------------------------------------------------ *)
(* load_directory / build_from_srt                                     *)
(* ------------------------------------------------------------------ *)

\* history: the claim's "artifact missing, fingerprint differs or force_rebuild"
Cold(force, fp) ==
    \/ force
    \/ metaFile.st = "absent" \/ embFile.st = "absent" \/ segFile.st = "absent"
    \/ (metaFile.st = "ok" /\ metaFile.fingerprint # fp)

\* (mutant) the exception of a cache read leaves the call
OnCacheErrorRaise == "raise"

\* what the except clause around the cache read does with an exception
OnCacheError == "rebuild"

\* what the rebuild puts into self.segs before it embeds (line 186 / 141)
RebuildSegs(fresh, cur) == fresh

\* From the entry of the call to its first await, or to its return.
Call(t, force) ==
    /\ task[t].pc = "idle"
    /\ cls = "ShowIndex" => ~force
    /\ LET rag == cls = "RAGIndex"
           parsed == IF rag THEN [ok |-> TRUE, segs |-> WalkSegs(dir.files)]
                     ELSE ShowSegs(SelectSeq(dir.files, IsSrt))
           fresh == parsed.segs
           fp == _fingerprint(fresh)
           rd == CacheRead(force, fp, metaFile, embFile, segFile, segs, emb)
           others == {u \in Tasks \ {t} : task[u].pc = "embed"}
           info == [t |-> t, force |-> force, fresh |-> fresh, fp |-> fp,
                    cold |-> Cold(force, fp), cacheErr |-> "no",
                    warm |-> cacheOf.ok /\ cacheOf.fresh = fresh,
                    overlapped |-> others # {}, calls |-> 0]
           mark == [u \in Tasks |->
                      IF u \in others THEN [task[u] EXCEPT !.info.overlapped = TRUE]
                      ELSE task[u]]
       IN  IF rag /\ ~dir.exists
           THEN \* line 135: the directory does not exist
                /\ last' = info @@ [ev |-> "returned", path |-> "nodir"]
                /\ UNCHANGED <<segs, emb, task>>
           ELSE IF ~parsed.ok
           THEN \* ShowIndex._parse_srt raised
                /\ last' = info @@ [ev |-> "raised", path |-> "parse"]
                /\ UNCHANGED <<segs, emb, task>>
           ELSE IF rag /\ fresh = <<>>
           THEN \* line 156: no segments
                /\ segs' = <<>>
                /\ emb' = None
                /\ last' = info @@ [ev |-> "returned", path |-> "empty"]
                /\ UNCHANGED task
           ELSE IF rd.hit
           THEN /\ segs' = rd.segs
                /\ emb' = rd.emb
                /\ last' = info @@ [ev |-> "returned", path |-> "hit"]
                /\ UNCHANGED task
           ELSE IF rd.err # "no" /\ OnCacheError # "rebuild"
           THEN \* (not the code: the except clause catches every Exception)
                /\ segs' = rd.segs
                /\ emb' = rd.emb
                /\ last' = [info EXCEPT !.cacheErr = rd.err]
                              @@ [ev |-> "raised", path |-> "hit"]
                /\ UNCHANGED task
           ELSE \* rebuild: self.segs = segs, then the batches
                /\ segs' = RebuildSegs(fresh, rd.segs)
                /\ UNCHANGED emb
                /\ IF fresh = <<>>
                   THEN \* np.stack of no vectors raises ValueError
                        /\ last' = [info EXCEPT !.cacheErr = rd.err]
                                      @@ [ev |-> "raised", path |-> "rebuild"]
                        /\ UNCHANGED task
                   ELSE /\ task' = [mark EXCEPT ![t] =
                               [pc |-> "embed", segs |-> fresh, fp |-> fp, i |-> 0,
                                vecs |-> <<>>,
                                info |-> [info EXCEPT !.cacheErr = rd.err]]]
                        /\ last' = [info EXCEPT !.cacheErr = rd.err]
                                      @@ [ev |-> "suspended", path |-> "rebuild"]
    /\ UNCHANGED <<cls, dir, disk, cacheOf, probe, query, outside>>

\* (mutant) everything not yet embedded goes into one batch
BatchOfTheRest(me) ==
    LET texts == [j \in 1..Len(me.segs) |-> me.segs[j].text]
    IN  SubSeq(texts, me.i + 1, Len(texts))

\* the batch the call is waiting for
BatchOf(me) ==
    LET texts == [j \in 1..Len(me.segs) |-> me.segs[j].text]
    IN  SubSeq(texts, me.i + 1, Min(me.i + BatchSize, Len(texts)))

Bump(info) == [info EXCEPT !.calls = @ + 1]

\* the embedding provider answers a batch that is not the last one
EmbedReturns(t) ==
    /\ task[t].pc = "embed"
    /\ task[t].i + BatchSize < Len(task[t].segs)
    /\ task' = [task EXCEPT ![t].vecs = @ \o _embed_fn(BatchOf(task[t])),
                            ![t].i = @ + BatchSize,
                            ![t].info = Bump(@)]
    /\ last' = Bump(task[t].info) @@ [ev |-> "suspended", path |-> "rebuild"]
    /\ UNCHANGED <<cls, dir, disk, segs, emb, cacheOf, probe, query, outside>>

\* the embedding provider raises: the exception leaves load_directory
EmbedRaises(t) ==
    /\ task[t].pc = "embed"
    /\ task' = [task EXCEPT ![t] = IdleTask]
    /\ last' = Bump(task[t].info) @@ [ev |-> "raised", path |-> "rebuild"]
    /\ UNCHANGED <<cls, dir, disk, segs, emb, cacheOf, probe, query, outside>>

\* the order in which lines 203-208 (158-162) write the artifacts
SaveOrder == <<"meta", "emb", "segs">>

\* the disk after the first n writes of the save, and, when torn, the next
\* write begun: the file truncated or cut short (the segment dump after k lines)
Saved(n, torn, k, fp, m) ==
    LET Done(a) == \E j \in 1..n : SaveOrder[j] = a
        Cut(a) == torn /\ n < 3 /\ SaveOrder[n + 1] = a
    IN  [meta |-> IF Done("meta") THEN MetaOf(fp, Len(segs))
                  ELSE IF Cut("meta") THEN Torn ELSE metaFile,
         emb |-> IF Done("emb") THEN EmbFileOf(m)
                 ELSE IF Cut("emb") THEN Torn ELSE embFile,
         seg |-> IF Done("segs") THEN SegFileOf(segs, Len(segs), FALSE)
                 ELSE IF Cut("segs") THEN SegFileOf(segs, k, k < Len(segs)) ELSE segFile]

\* self._emb after the last batch: np.stack, L2 normalisation
FinalEmb(me) == [st |-> "ok", rows |-> L2Normalize(me.vecs \o _embed_fn(BatchOf(me)))]

\* the last batch is answered: self._emb is set, the cache is saved, the call returns
FinishBuild(t) ==
    /\ task[t].pc = "embed"
    /\ task[t].i + BatchSize >= Len(task[t].segs)
    /\ LET m == FinalEmb(task[t])
           d == Saved(3, FALSE, 0, task[t].fp, m)
       IN  /\ emb' = m
           /\ metaFile' = d.meta
           /\ embFile' = d.emb
           /\ segFile' = d.seg
           /\ cacheOf' = [ok |-> TRUE, fresh |-> task[t].segs, segs |-> segs, emb |-> m]
    /\ task' = [task EXCEPT ![t] = IdleTask]
    /\ last' = Bump(task[t].info) @@ [ev |-> "returned", path |-> "rebuild"]
    /\ UNCHANGED <<cls, dir, segs, probe, query, outside>>

\* the process stops while the call saves the cache: n writes are complete,
\* the next one may be cut short; the index in memory is gone
CrashInSave(t, n, torn, k) ==
    /\ task[t].pc = "embed"
    /\ task[t].i + BatchSize >= Len(task[t].segs)
    /\ n < 3
    /\ k <= Len(segs)
    /\ (k > 0) => (torn /\ SaveOrder[n + 1] = "segs")
    /\ LET d == Saved(n, torn, k, task[t].fp, FinalEmb(task[t]))
       IN  /\ metaFile' = d.meta
           /\ embFile' = d.emb
           /\ segFile' = d.seg
    /\ segs' = <<>>
    /\ emb' = None
    /\ task' = [u \in Tasks |-> IdleTask]
    /\ cacheOf' = NoBuild
    /\ last' = Bump(task[t].info) @@ [ev |-> "crashed", path |-> "rebuild", wrote |-> n]
    /\ UNCHANGED <<cls, dir, probe, query, outside>>

\* the process is restarted: a fresh index object, the disk as it was
Restart ==
    /\ segs' = <<>>
    /\ emb' = None
    /\ task' = [u \in Tasks |-> IdleTask]
    /\ last' = NoStep
    /\ <<segs, emb, task, last>> # <<segs', emb', task', last'>>
    /\ UNCHANGED <<cls, dir, disk, cacheOf, probe, query, outside>>

Next ==
    \/ \E c \in SrtCorpus : WriteFile(SrtPath, c)
    \/ RemoveFile(SrtPath)
    \/ ToggleDir
    \/ \E force \in BOOLEAN : Call(1, force)
    \/ \E t \in Tasks : EmbedReturns(t)
    \/ \E t \in Tasks : EmbedRaises(t)
    \/ \E t \in Tasks : FinishBuild(t)
    \/ \E t \in Tasks : \E n \in 0..2 : \E torn \in BOOLEAN : \E k \in 0..Len(segs) :
           CrashInSave(t, n, torn, k)
    \/ Restart

Spec == Init /\ [][Next]_vars

(* ------------------------------------------------------------------ *)
(* The index contract: claims about load_directory / build_from_srt    *)
(* ------------------------------------------------------------------ *)

\* one row per segment, row i the normalized embedding of segment i; no rows
\* when there is no matrix
Aligned(ss, m) == IF m.st = "none" THEN ss = <<>> ELSE m.rows = RowsOf(ss)

\* what a query may answer from: no matrix (search returns []), or an aligned one
Answerable(ss, m) == m.st = "none" \/ m.rows = RowsOf(ss)

Returned == last.ev = "returned"

\* C1: after a load_directory / build_from_srt call that returned normally
\* through the cache-hit, the rebuild or the empty-directory path, whatever
\* the cache files were, the index has as many segments as matrix rows and
\* row i is the embedding of segment i.
C1_AlignedAfterLoad ==
    (Returned /\ last.path \in {"hit", "rebuild", "empty"}) => Aligned(segs, emb)

\* C2: when the three artifacts were written by a completed build and the
\* directory parses as it did for that build, a call without force_rebuild
\* returns through the cache-hit path without any call to the embedding
\* provider, with the segment list and the matrix that build ended with.
C2_WarmLoadReusesCache ==
    (last.ev # "none" /\ last.warm /\ ~last.force) =>
        /\ Returned
        /\ last.path = "hit"
        /\ last.calls = 0
        /\ segs = cacheOf.segs
        /\ emb = cacheOf.emb

C2_Witness ==
    /\ Returned /\ last.path = "hit" /\ last.warm
    /\ Len(segs) = 2 /\ emb.st = "ok"

\* what C3 promises of a call that found the cache cold
RebuiltFrom(fresh, fp) ==
    /\ last.path = "rebuild"
    /\ last.calls = (Len(fresh) + BatchSize - 1) \div BatchSize
    /\ segs = fresh
    /\ emb = [st |-> "ok", rows |-> RowsOf(fresh)]
    /\ metaFile = MetaOf(fp, Len(fresh))
    /\ embFile = [st |-> "ok", rows |-> RowsOf(fresh)]
    /\ segFile = SegFileOf(fresh, Len(fresh), FALSE)

C4_CacheErrorRebuilds ==
    (last.ev # "none" /\ last.cacheErr # "no") =>
        /\ last.path = "rebuild"
        /\ last.ev \in {"suspended", "returned", "raised"} => segs = last.fresh
        /\ Returned => emb = [st |-> "ok", rows |-> RowsOf(last.fresh)]

C4_Witness == Returned /\ last.cacheErr = "segs" /\ Len(segs) = 2

\* C5: when the embedding provider raises during a rebuild, the index is left
\* as before the call or unbuilt, never the new segment list next to the
\* matrix of an earlier build.
C5_FailedBuildLeavesIndex ==
    (last.ev = "raised" /\ last.path = "rebuild" /\ last.calls > 0) =>
        Answerable(segs, emb)

\* C6: while load_directory waits for an embedding batch, the segment list and
\* the matrix another task can see belong to one build.
C6_SwapAtEnd ==
    \A t \in Tasks : task[t].pc = "embed" => Answerable(segs, emb)

\* C7: when the process stops while the cache is saved, a metadata file with
\* the new fingerprint is on disk only with the completely written matrix and
\* segment dump of the same build.
C7_MetaWrittenLast ==
    (last.ev = "crashed" /\ metaFile.st = "ok" /\ metaFile.fingerprint = last.fp) =>
        /\ embFile = [st |-> "ok", rows |-> RowsOf(last.fresh)]
        /\ segFile = SegFileOf(last.fresh, Len(last.fresh), FALSE)

(* ------------------------------------------------------------------ *)
(* The fingerprint study: two states of one directory, parsed and      *)
(* fingerprinted as load_directory does (lines 144-162)                *)
(* ------------------------------------------------------------------ *)

\* the lines a plain-text file is made of in the study; the id line is the
\* text of the id that _parse_txt gives the second chunk of the file
TxtAlphabet == {Blank, Ws, Word("hello"), Word("bye"), IdLine(PrefixOf(TxtPath), 1)}

TxtAll == UNION {[1..n -> TxtAlphabet] : n \in 0..MaxTxtLines}

\* one numbered subtitle block
SrtBlock == << Num(1), Time(1000, 2000), Word("hello") >>

\* timecodes one character apart: "00:00:01,000", "00:00:02,000", "00:00:0x,000"
NearTcs == {1000, 2000, BadTc}

\* the lines that differ from line l in exactly one character
OneCharFrom(l) ==
    CASE l.k = "num" -> {Num(n) : n \in {1, 2} \ {l.a}} \cup {Word("x")}
      [] l.k = "time" -> {Time(a, l.b) : a \in NearTcs \ {l.a}}
                         \cup {Time(l.a, b) : b \in NearTcs \ {l.b}}
      [] l.k = "word" /\ l.a = "hello" -> {Word("hallo")}
      [] l.k = "word" /\ l.a = "bye" -> {Word("bya")}
      [] OTHER -> {}

\* what load_directory computes from a listing: the segments and their fingerprint
Scan(files) ==
    [files |-> files, segs |-> WalkSegs(files), fp |-> _fingerprint(WalkSegs(files))]

\* (seg_id, raw) of every segment in order: what the fingerprint is to tell apart
Keys(ss) == [j \in 1..Len(ss) |-> <<ss[j].seg_id, ss[j].raw>>]

FpListings ==
    LET srt == [path |-> SrtPath, content |-> SrtBlock]
        Txt(c) == [path |-> TxtPath, content |-> c]
    IN  {<<>>, <<srt>>}
        \cup {<<Txt(c)>> : c \in TxtAll}
        \cup {<<srt, Txt(c)>> : c \in TxtAll}
        \cup {<<Txt(c), srt>> : c \in TxtAll}

FpInit ==
    /\ cls = "RAGIndex"
    /\ dir = EmptyDir
    /\ metaFile = Absent
    /\ embFile = Absent
    /\ segFile = Absent
    /\ segs = <<>>
    /\ emb = None
    /\ task = [t \in Tasks |-> IdleTask]
    /\ last = NoStep
    /\ cacheOf = NoBuild
    /\ query = NoQuery
    /\ Unused
    /\ \E files \in FpListings :
         probe = [on |-> TRUE, change |-> "none", prev |-> Scan(files), cur |-> Scan(files)]

Studied(change, files) ==
    /\ probe.change = "none"
    /\ probe' = [probe EXCEPT !.change = change, !.cur = Scan(files)]
    /\ UNCHANGED <<cls, dir, disk, segs, emb, task, last, cacheOf, query, outside>>

\* one character of line j of file i is changed
FpEditChar(i, j, l) ==
    /\ i \in 1..Len(probe.cur.files)
    /\ j \in 1..Len(probe.cur.files[i].content)
    /\ l \in OneCharFrom(probe.cur.files[i].content[j])
    /\ Studied("char", [probe.cur.files EXCEPT ![i].content[j] = l])

\* the plain-text file is rewritten
FpRewrite(i, c) ==
    /\ i \in 1..Len(probe.cur.files)
    /\ probe.cur.files[i].path = TxtPath
    /\ probe.cur.files[i].content # c
    /\ Studied("rewrite", [probe.cur.files EXCEPT ![i].content = c])

\* the same files come to be listed in another order (os.walk yields the
\* entries in the order of the OS directory, which promises none)
FpRelist ==
    /\ Len(probe.cur.files) = 2
    /\ Studied("relist", <<probe.cur.files[2], probe.cur.files[1]>>)

FpNext ==
    \/ \E i \in 1..2 : \E j \in 1..MaxTxtLines :
         \E l \in UNION {OneCharFrom(x) : x \in TxtAlphabet \cup {Num(1), Time(1000, 2000)}} :
           FpEditChar(i, j, l)
    \/ \E i \in 1..2 : \E c \in TxtAll : FpRewrite(i, c)
    \/ FpRelist

SpecFp == FpInit /\ [][FpNext]_vars

\* C8: a change of one character of an indexed file (a text line, the time
\* range line or the index line of a subtitle block) changes the fingerprint
\* that load_directory computes; stated here for the changes that alter the
\* parsed segments, which the next load is to pick up.
C8_OneCharChangesFingerprint ==
    (probe.on /\ probe.change = "char" /\ probe.cur.segs # probe.prev.segs) =>
        probe.cur.fp # probe.prev.fp

\* C9: two parsed segment lists that differ in an id, a raw text, the number
\* or the order of their segments have different fingerprints (they feed
\* different bytes to the hash).
C9_FingerprintSeparates ==
    (probe.on /\ Keys(probe.cur.segs) # Keys(probe.prev.segs)) =>
        probe.cur.fp # probe.prev.fp

\* C10: the fingerprint does not depend on the order in which the walk yields
\* the files.
C10_WalkOrderIrrelevant ==
    (probe.on /\ probe.change = "relist") => probe.cur.fp = probe.prev.fp

(* ------------------------------------------------------------------ *)
(* Queries: search (lines 211-226), search_frames_by_timestamp         *)
(* (228-267), search_transcript_by_timestamp (269-312) and             *)
(* extract_frame_info (355-385).  Seconds are counted in milliseconds  *)
(* and the arithmetic on them is exact.                                *)
(* ------------------------------------------------------------------ *)

\* The header line of a caption entry as youtube_ingest writes it,
\* "时间: <tc> (<secs>秒) 帧文件: frames/<n>.jpg": a is the number in the
\* parentheses (NoTime: the line does not match the time pattern), b the
\* number of the frame file (NoFrame: the line has no frame-file pattern).
NoTime == 0 - 1
NoFrame == 0
Cap(secs, file) == L("cap", secs, file)

RECURSIVE Atoms(_)
\* the raw text of a segment read left to right
Atoms(raw) == IF raw = <<>> THEN <<>> ELSE Head(raw) \o Atoms(Tail(raw))

\* "captions.zh.txt" in file_path or "frames" in file_path
IsCaptionPath(path) == path = CapPath

\* re.search of the time pattern in raw: the first match, float(group(2))
TimeMatch(raw) ==
    LET Timed(l) == l.k = "cap" /\ l.a # NoTime
        m == SelectSeq(Atoms(raw), Timed)
    IN  IF m = <<>> THEN [ok |-> FALSE, secs |-> 0] ELSE [ok |-> TRUE, secs |-> m[1].a]

\* re.search of the frame-file pattern in raw: the first match
FrameMatch(raw) ==
    LET Filed(l) == l.k = "cap" /\ l.b # NoFrame
        m == SelectSeq(Atoms(raw), Filed)
    IN  IF m = <<>> THEN [ok |-> FALSE, file |-> NoFrame] ELSE [ok |-> TRUE, file |-> m[1].b]

\* A timestamp string given to search_frames_by_timestamp: its spelling and,
\* for the spellings of an instant, the timecode HHMMSSmmm it spells.
\*   comma "HH:MM:SS,mmm"   dot "HH:MM:SS.mmm"   plain "HH:MM:SS"
\*   junk "soon"            dotjunk "1.5"        commajunk "1,5"
Stamp(form, tc) == [form |-> form, tc |-> tc]

\* _TIME_RE.match(tc.strip()) succeeds
Matches(ts) == ts.form = "comma"

\* (mutant) the dot is not taken for the millisecond separator
RespellPlainOnly(ts) == IF ts.form = "plain" THEN Stamp("comma", ts.tc) ELSE ts

\* lines 235-239: the string the second try parses
Respell(ts) ==
    IF ts.form \in {"plain", "junk"}
    THEN \* neither "," nor ".": ",000" is appended
         IF ts.form = "plain" THEN Stamp("comma", ts.tc) ELSE ts
    ELSE IF ts.form \in {"dot", "dotjunk"}
    THEN \* the first "." becomes ","
         IF ts.form = "dot" THEN Stamp("comma", ts.tc) ELSE Stamp("commajunk", ts.tc)
    ELSE ts

\* (mutant) a timestamp that parses under no format raises to the caller
OnBadTimestampRaise == "raise"

\* what the inner except clause (lines 241-243) does: return []
OnBadTimestamp == "empty"

\* lines 230-243: target_seconds, or no target
TargetOf(ts) ==
    IF Matches(ts) THEN [ok |-> TRUE, secs |-> _tc_to_seconds(ts.tc)]
    ELSE IF Matches(Respell(ts)) THEN [ok |-> TRUE, secs |-> _tc_to_seconds(Respell(ts).tc)]
    ELSE [ok |-> FALSE, secs |-> 0]

Abs(x) == IF x < 0 THEN 0 - x ELSE x

\* a score as the fraction n / d
Frac(n, d) == [n |-> n, d |-> d]

\* 1.0 / (1.0 + distance), distance in milliseconds
Proximity(distance) == Frac(1000, 1000 + distance)

\* (mutant) a containing segment scored like one at distance 0
ContainScoreAsNear == Frac(1, 1)

\* score = 2.0 (line 289)
ContainScore == Frac(2, 1)

Greater(a, b) == a.n * b.d > b.n * a.d

RECURSIVE InsertHit(_, _)
InsertHit(sorted, h) ==
    IF sorted = <<>> THEN <<h>>
    ELSE IF Greater(h.score, Head(sorted).score) THEN <<h>> \o sorted
    ELSE <<Head(sorted)>> \o InsertHit(Tail(sorted), h)

RECURSIVE SortHits(_)
\* list.sort(key=lambda x: -x[0]): descending by score, equal scores in the
\* order they were appended
SortHits(hs) ==
    IF hs = <<>> THEN <<>>
    ELSE InsertHit(SortHits(SubSeq(hs, 1, Len(hs) - 1)), hs[Len(hs)])

Hit(score, seg) == [score |-> score, seg |-> seg]
Answer(ev, hits, calls) == [ev |-> ev, hits |-> hits, calls |-> calls]

\* lines 279-305: what the loop appends for the subtitle segment s
TranscriptHit(s, t, tol) ==
    LET segment_start == s.metadata.start_s
        segment_end == s.metadata.end_s
    IN  IF segment_start <= t /\ t <= segment_end
        THEN [keep |-> TRUE, score |-> ContainScore]
        ELSE IF t < segment_start
        THEN [keep |-> segment_start - t <= tol, score |-> Proximity(Abs(segment_start - t))]
        ELSE [keep |-> t - segment_end <= tol, score |-> Proximity(Abs(t - segment_end))]

\* RAGIndex.search_transcript_by_timestamp on the segment list ss
search_transcript_by_timestamp(ss, t, tol) ==
    LET Kept(s) == s.metadata.type = "srt" /\ TranscriptHit(s, t, tol).keep
        kept == SelectSeq(ss, Kept)
    IN  Answer("returned",
               SortHits([j \in 1..Len(kept) |->
                           Hit(TranscriptHit(kept[j], t, tol).score, kept[j])]),
               0)

\* lines 247-263: the caption segment s is appended
FrameNear(s, target, tol) ==
    /\ IsCaptionPath(s.file_path)
    /\ TimeMatch(s.raw).ok
    /\ Abs(TimeMatch(s.raw).secs - target) <= tol

\* RAGIndex.search_frames_by_timestamp on the segment list ss
search_frames_by_timestamp(ss, ts, tol) ==
    LET target == TargetOf(ts)
        Kept(s) == FrameNear(s, target.secs, tol)
        kept == SelectSeq(ss, Kept)
    IN  IF ~target.ok
        THEN IF OnBadTimestamp = "empty" THEN Answer("returned", <<>>, 0)
             ELSE Answer("raised", <<>>, 0)
        ELSE Answer("returned",
                    SortHits([j \in 1..Len(kept) |->
                                Hit(Proximity(Abs(TimeMatch(kept[j].raw).secs - target.secs)),
                                    kept[j])]),
                    0)

\* self._emb @ qv for one row: here the number of words of the segment that
\* the query has too (the provider's geometry is not the index's business)
Dot(row, qv) ==
    Cardinality({i \in 1..Len(row.of) : \E j \in 1..Len(qv.of) : row.of[i] = qv.of[j]})

\* np.argsort(-scores): the row numbers by descending score; the order of
\* equal scores is the sort's choice
ArgSort(scores) ==
    {p \in [1..Len(scores) -> 1..Len(scores)] :
       /\ \A i, j \in 1..Len(scores) : i # j => p[i] # p[j]
       /\ \A i, j \in 1..Len(scores) : i < j => scores[p[i]] >= scores[p[j]]}

RECURSIVE TopLoop(_, _, _)
\* lines 221-225: append, then stop when len(out) >= k
TopLoop(idxs, out, k) ==
    IF idxs = <<>> THEN out
    ELSE LET out2 == Append(out, Head(idxs))
         IN  IF Len(out2) >= k THEN out2 ELSE TopLoop(Tail(idxs), out2, k)

\* line 212: search returns [] at once
SearchEmpty(ss, m) == m.st = "none" \/ ss = <<>>

\* lines 215-226 of RAGIndex.search (171-183 of ShowIndex.search without an
\* episode): the answers the call can give after the provider returned qv
search(ss, m, q, k) ==
    LET qv == L2Normalize(_embed_fn(<<_normalize_text(q)>>))[1]
        scores == [j \in 1..Len(m.rows) |-> Dot(m.rows[j], qv)]
    IN  {IF \E j \in 1..Len(TopLoop(idxs, <<>>, k)) : TopLoop(idxs, <<>>, k)[j] > Len(ss)
         THEN Answer("raised", <<>>, 1)
         ELSE Answer("returned",
                     [j \in 1..Len(TopLoop(idxs, <<>>, k)) |->
                        Hit(Frac(scores[TopLoop(idxs, <<>>, k)[j]], 1),
                            ss[TopLoop(idxs, <<>>, k)[j]])],
                     1)
         : idxs \in ArgSort(scores)}

\* RAGIndex.extract_frame_info
extract_frame_info(hits) ==
    LET IsFrame(h) == /\ IsCaptionPath(h.seg.file_path)
                      /\ TimeMatch(h.seg.raw).ok
                      /\ FrameMatch(h.seg.raw).ok
        kept == SelectSeq(hits, IsFrame)
    IN  [j \in 1..Len(kept) |->
           [score |-> kept[j].score,
            timestamp_seconds |-> TimeMatch(kept[j].seg.raw).secs,
            frame_file |-> FrameMatch(kept[j].seg.raw).file,
            full_path |-> kept[j].seg.file_path]]

(* ------------------------------------------------------------------ *)
(* The query study: an index as load_directory built it, and queries   *)
(* on it in any interleaving                                           *)
(* ------------------------------------------------------------------ *)

\* search calls that may wait for the embedding provider at one time
MaxPending == 2

\* the spec's example: one block spans [10.0, 12.0], the other starts 0.5 s
\* after it; the nearby block comes first in the file
SrtNear == << Num(1), Time(12500, 13000), Word("bye"), Blank,
              Num(2), Time(10000, 12000), Word("hello") >>
\* a block whose range runs backwards: 00:00:10,000 --> 00:00:02,000
SrtReversed == << Num(1), Time(10000, 2000), Word("hello") >>
\* two blocks that carry the same index line
SrtTwice == << Num(1), Time(10000, 12000), Word("hello"), Blank,
               Num(1), Time(12500, 13000), Word("bye") >>

\* frames at 6.00 s and 16.00 s
CapFrames == << Cap(6000, 1), Word("desc"), Blank, Cap(16000, 2), Word("desc") >>
\* an entry without the frame-file pattern, an entry without the time pattern
CapLoose == << Cap(6000, NoFrame), Word("desc"), Blank, Cap(NoTime, 2), Word("bye") >>

QListings ==
    LET Srt(c) == [path |-> SrtPath, content |-> c]
        Capt(c) == [path |-> CapPath, content |-> c]
        srts == {SrtNear, SrtReversed, SrtTwice}
        caps == {CapFrames, CapLoose}
    IN  {<<>>} \cup {<<Srt(c)>> : c \in srts} \cup {<<Capt(c)>> : c \in caps}
        \cup {<<Srt(c), Capt(d)>> : c \in srts, d \in caps}

\* the arguments the queries are given
QStamps == {Stamp("comma", 6000), Stamp("comma", 11000), Stamp("dot", 6000),
            Stamp("plain", 6000), Stamp("junk", 0), Stamp("dotjunk", 0),
            Stamp("commajunk", 0), Stamp("comma", 6500), Stamp("dot", 6500)}
QFrameTols == {0, 5000, 10000}
QInstants == {3000, 11000, 12200, 30000}
QTranscriptTols == {0, 1000, 5000}
QTexts == {<<Word("hello")>>, <<Ws, Word("desc"), Word("bye")>>}
QKs == {0, 2, 5}

\* the index and the artifacts after load_directory(directory) returned
QInit ==
    /\ cls = "RAGIndex"
    /\ \E files \in QListings :
         LET built == WalkSegs(files)
             m == [st |-> "ok", rows |-> RowsOf(built)]
         IN  /\ dir = [exists |-> TRUE, files |-> files]
             /\ segs = built
             /\ emb = IF built = <<>> THEN None ELSE m
             /\ metaFile = IF built = <<>> THEN Absent
                           ELSE MetaOf(_fingerprint(built), Len(built))
             /\ embFile = IF built = <<>> THEN Absent ELSE EmbFileOf(m)
             /\ segFile = IF built = <<>> THEN Absent
                          ELSE SegFileOf(built, Len(built), FALSE)
    /\ cacheOf = [ok |-> TRUE, fresh |-> segs, segs |-> segs, emb |-> emb,
                  disk |-> <<metaFile, embFile, segFile>>]
    /\ task = [t \in Tasks |-> IdleTask]
    /\ last = NoStep
    /\ probe = NoProbe
    /\ query = NoQuery
    /\ Unused

\* (mutant) a query that finds nothing drops the matrix
AfterQueryDropsMatrix(ans, ix) == IF ans.hits = <<>> THEN [ix EXCEPT !.emb = None] ELSE ix

\* what a query leaves of the index and the artifacts: lines 211-312 assign
\* no attribute of the index and open no file
AfterQuery(ans, ix) == ix

\* a query call ends (or, ev = "suspended", waits for the provider)
Answered(op, args, ans, pend) ==
    /\ query' = [op |-> op, ev |-> ans.ev, args |-> args, hits |-> ans.hits,
                 calls |-> ans.calls, pend |-> pend, extracted |-> FALSE,
                 frames |-> <<>>]
    /\ LET ix == AfterQuery(ans, [segs |-> segs, emb |-> emb, meta |-> metaFile,
                                  embf |-> embFile, segf |-> segFile])
       IN  /\ segs' = ix.segs
           /\ emb' = ix.emb
           /\ metaFile' = ix.meta
           /\ embFile' = ix.embf
           /\ segFile' = ix.segf
    /\ UNCHANGED <<cls, dir, task, last, cacheOf, probe, outside>>

\* search(q, k) is called: it returns [] at once, or awaits the provider
Search(q, k) ==
    IF SearchEmpty(segs, emb)
    THEN Answered("search", <<q, k>>, Answer("returned", <<>>, 0), query.pend)
    ELSE /\ [q |-> q, k |-> k] \notin query.pend
         /\ Cardinality(query.pend) < MaxPending
         /\ Answered("search", <<q, k>>, Answer("suspended", <<>>, 0),
                     query.pend \cup {[q |-> q, k |-> k]})

\* the provider answers a waiting search, which ranks and returns
SearchReturns(f) ==
    /\ f \in query.pend
    /\ \E ans \in search(segs, emb, f.q, f.k) :
         Answered("search", <<f.q, f.k>>, ans, query.pend \ {f})

SearchFrames(ts, tol) ==
    Answered("frames", <<ts, tol>>, search_frames_by_timestamp(segs, ts, tol), query.pend)

SearchTranscript(t, tol) ==
    Answered("transcript", <<t, tol>>, search_transcript_by_timestamp(segs, t, tol),
             query.pend)

\* the caller hands the hits of its query to extract_frame_info
ExtractFrames ==
    /\ query.ev = "returned"
    /\ ~query.extracted
    /\ query' = [query EXCEPT !.extracted = TRUE, !.frames = extract_frame_info(query.hits)]
    /\ UNCHANGED <<cls, dir, disk, segs, emb, task, last, cacheOf, probe, outside>>

QNext ==
    \/ \E q \in QTexts : \E k \in QKs : Search(q, k)
    \/ \E f \in [q : QTexts, k : QKs] : SearchReturns(f)
    \/ \E ts \in QStamps : \E tol \in QFrameTols : SearchFrames(ts, tol)
    \/ \E t \in QInstants : \E tol \in QTranscriptTols : SearchTranscript(t, tol)
    \/ ExtractFrames

SpecQuery == QInit /\ [][QNext]_vars

(* ------------------------------------------------------------------ *)
(* The query contract                                                  *)
(* ------------------------------------------------------------------ *)

TranscriptAnswered == query.op = "transcript" /\ query.ev = "returned"
FramesAnswered == query.op = "frames" /\ query.ev = "returned"
SearchAnswered == query.op = "search" /\ query.ev = "returned"

\* the instant t lies in the interval [start, end] of the subtitle segment s
Contains(s, t) ==
    s.metadata.type = "srt" /\ s.metadata.start_s <= t /\ t <= s.metadata.end_s

\* the hits are the segments of ss that satisfy Wanted, each once
ExactlyThe(hits, ss, Wanted(_)) ==
    /\ Len(hits) = Len(SelectSeq(ss, Wanted))
    /\ \A j \in 1..Len(ss) : Wanted(ss[j]) <=> \E i \in 1..Len(hits) : hits[i].seg = ss[j]

\* C11: in the result of search_transcript_by_timestamp every segment whose
\* interval contains the instant is returned with score 2.0 and stands before
\* every returned segment that does not contain it, whose score is in (0, 1].
C11_ContainingFirst ==
    TranscriptAnswered =>
        LET t == query.args[1]
            h == query.hits
        IN  /\ \A j \in 1..Len(segs) :
                 Contains(segs[j], t) => \E i \in 1..Len(h) : h[i].seg = segs[j]
            /\ \A i \in 1..Len(h) :
                 IF Contains(h[i].seg, t) THEN h[i].score = Frac(2, 1)
                 ELSE 0 < h[i].score.n /\ h[i].score.n <= h[i].score.d
            /\ \A i, j \in 1..Len(h) :
                 (Contains(h[i].seg, t) /\ ~Contains(h[j].seg, t)) => i < j

\* a containing segment is returned ahead of a nearby one that precedes it in
\* the segment list
C11_Witness ==
    /\ TranscriptAnswered
    /\ Len(query.hits) = 2
    /\ Contains(query.hits[1].seg, query.args[1])
    /\ ~Contains(query.hits[2].seg, query.args[1])
    /\ segs[1] = query.hits[2].seg

\* the gap between the instant and the nearer edge of the interval of s
EdgeGap(s, t) == Min(Abs(t - s.metadata.start_s), Abs(t - s.metadata.end_s))

\* C12: search_transcript_by_timestamp returns exactly the subtitle segments
\* that contain the instant or whose nearest interval edge is at most
\* tolerance_seconds away, and nothing else.
C12_TranscriptExactlyNear ==
    TranscriptAnswered =>
        LET t == query.args[1]
            tol == query.args[2]
            Wanted(s) == s.metadata.type = "srt" /\ (Contains(s, t) \/ EdgeGap(s, t) <= tol)
        IN  ExactlyThe(query.hits, segs, Wanted)

\* a frame-caption segment (spec, data model): an entry of a caption file with
\* a timestamp and a frame file reference
IsFrameCaption(s) ==
    IsCaptionPath(s.file_path) /\ TimeMatch(s.raw).ok /\ FrameMatch(s.raw).ok

\* C13: search_frames_by_timestamp returns exactly the frame-caption segments
\* whose timestamp is at most tolerance_seconds from the target (the tolerance
\* itself included), by non-decreasing distance, each scored 1/(1+distance).
C13_FramesExactlyNear ==
    (FramesAnswered /\ query.args[1].form \in {"comma", "dot", "plain"}) =>
        LET target == _tc_to_seconds(query.args[1].tc)
            tol == query.args[2]
            h == query.hits
            Gap(s) == Abs(TimeMatch(s.raw).secs - target)
            Wanted(s) == IsFrameCaption(s) /\ Gap(s) <= tol
        IN  /\ ExactlyThe(h, segs, Wanted)
            /\ \A i, j \in 1..Len(h) : i < j => Gap(h[i].seg) <= Gap(h[j].seg)
            /\ \A i \in 1..Len(h) : h[i].score = Frac(1000, 1000 + Gap(h[i].seg))

\* C14: a timestamp string that is none of "HH:MM:SS,mmm", "HH:MM:SS.mmm",
\* "HH:MM:SS" makes search_frames_by_timestamp return the empty list; the
\* call does not raise.
C14_BadTimestampEmpty ==
    (query.op = "frames" /\ query.args[1].form \notin {"comma", "dot", "plain"}) =>
        query.ev = "returned" /\ query.hits = <<>>

\* the index holds a caption entry and the string is no timestamp
C14_Witness ==
    /\ FramesAnswered
    /\ query.args[1].form = "dotjunk"
    /\ \E j \in 1..Len(segs) : IsFrameCaption(segs[j])
    /\ query.hits = <<>>

\* C15: search(query, k) on N segments returns min(k, N) hits for every
\* k >= 0, by non-increasing score, none of the segments left out scoring
\* higher than a returned one.
C15_TopK ==
    SearchAnswered =>
        LET h == query.hits
            qv == [of |-> _normalize_text(query.args[1])]
        IN  /\ Len(h) = Min(query.args[2], Len(segs))
            /\ \A i, j \in 1..Len(h) : i < j => ~Greater(h[j].score, h[i].score)
            /\ \A i \in 1..Len(h) : \A j \in 1..Len(segs) :
                 (\A x \in 1..Len(h) : h[x].seg # segs[j]) =>
                     Dot([of |-> segs[j].text], qv) * h[i].score.d <= h[i].score.n

\* C16: a build from input that yields no segment (no file, no valid block)
\* completes without error and leaves the empty index: no segment, no matrix.
C16_EmptyBuildLeavesEmptyIndex ==
    (last.ev \in {"returned", "raised"} /\ last.fresh = <<>>
       /\ last.path \notin {"nodir", "parse"}) =>
        /\ Returned
        /\ segs = <<>>
        /\ emb = None

\* C17: no two segments of an index built by load_directory have the same
\* seg_id.
C17_SegIdsUnique ==
    \A i, j \in 1..Len(segs) : i # j => segs[i].seg_id # segs[j].seg_id

\* a subtitle file of the directory has a time-range line with a timecode
\* that _TIME_RE does not match
HasBadTimecode(files) ==
    \E i \in 1..Len(files) : \E j \in 1..Len(files[i].content) :
        LET l == files[i].content[j]
        IN  files[i].path = SrtPath /\ l.k = "time" /\ (l.a = BadTc \/ l.b = BadTc)

\* C18: a block whose time-range line has an unparsable timecode makes the
\* parse of the file, and so the load that parses it, raise to the caller
\* (stated of the step that parses: no provider call made yet).
C18_BadTimecodeRaises ==
    (last.ev # "none" /\ last.calls = 0 /\ last.path # "nodir"
       /\ HasBadTimecode(dir.files)) =>
        last.ev = "raised" /\ last.path = "parse"

\* C19: a caption entry without the timestamp pattern or without the
\* frame-file pattern is in no result of search_frames_by_timestamp and in no
\* output of extract_frame_info.
C19_LooseEntriesExcluded ==
    /\ FramesAnswered => \A i \in 1..Len(query.hits) : IsFrameCaption(query.hits[i].seg)
    /\ query.extracted =>
         \A i \in 1..Len(query.frames) :
            \E j \in 1..Len(query.hits) :
               /\ IsFrameCaption(query.hits[j].seg)
               /\ query.frames[i].frame_file = FrameMatch(query.hits[j].seg.raw).file
               /\ query.frames[i].timestamp_seconds = TimeMatch(query.hits[j].seg.raw).secs

\* the answers the call gives when it runs alone on the index as built
Alone(op, args) ==
    CASE op = "search" ->
           IF SearchEmpty(cacheOf.segs, cacheOf.emb) THEN {Answer("returned", <<>>, 0)}
           ELSE search(cacheOf.segs, cacheOf.emb, args[1], args[2])
      [] op = "frames" -> {search_frames_by_timestamp(cacheOf.segs, args[1], args[2])}
      [] op = "transcript" ->
           {search_transcript_by_timestamp(cacheOf.segs, args[1], args[2])}
      [] OTHER -> {}

\* C20: the queries leave the segment list, the matrix and the three cache
\* artifacts as the build left them, whatever they return, and every query
\* of an interleaving answers as it would when run alone.
C20_QueriesReadOnly ==
    /\ segs = cacheOf.segs
    /\ emb = cacheOf.emb
    /\ <<metaFile, embFile, segFile>> = cacheOf.disk
    /\ query.ev \in {"returned", "raised"} =>
         Answer(query.ev, query.hits, query.calls) \in Alone(query.op, query.args)

\* a frame search with an unparsable timestamp ran while a search waited for
\* the provider, and then the search returned its hits
C20_Witness ==
    /\ SearchAnswered
    /\ query.hits # <<>>
    /\ query.pend # {}
    /\ emb.st = "ok"

(* ------------------------------------------------------------------ *)
(* The parsers on arbitrary file contents                              *)
(* ------------------------------------------------------------------ *)

\* longest file, in lines, handed to a parser in SpecParse
MaxParseLines == 4

MdPath == "notes.md"

\* the lines a parsed file is made of
ParseAlphabet == {Blank, Ws, Num(7), Time(1000, 2000), Time(BadTc, 2000), Word("hello")}

ParseContents == UNION {[1..n -> ParseAlphabet] : n \in 0..MaxParseLines}

\* _parse_md: the paragraphs of _parse_txt
_parse_md(path, content, prefix) == _parse_txt(path, content, prefix)

\* a file of some content lies on disk, no parser has read it yet
ParseInit ==
    /\ cls = "RAGIndex"
    /\ dir = EmptyDir
    /\ metaFile = Absent
    /\ embFile = Absent
    /\ segFile = Absent
    /\ segs = <<>>
    /\ emb = None
    /\ task = [t \in Tasks |-> IdleTask]
    /\ last = NoStep
    /\ cacheOf = NoBuild
    /\ probe = NoProbe
    /\ query = NoQuery
    /\ render = NoRender
    /\ story = NoStory
    /\ session = NoSession
    /\ \E c \in ParseContents : parse = [on |-> TRUE, content |-> c, by |-> "none", out |-> <<>>]

index == <<cls, dir, disk, segs, emb, task, last, cacheOf, probe, query>>

Parsed(by, res) ==
    /\ parse.on
    /\ parse.by # by
    /\ parse' = [parse EXCEPT !.by = by, !.out = res.segs]
    /\ UNCHANGED <<index, render, story, session>>

ParseSrt == Parsed("_parse_srt", _parse_srt(SrtPath, parse.content, PrefixOf(SrtPath)))
ParseTxt == Parsed("_parse_txt", _parse_txt(TxtPath, parse.content, PrefixOf(TxtPath)))
ParseMd == Parsed("_parse_md", _parse_md(MdPath, parse.content, PrefixOf(MdPath)))

ParseNext == ParseSrt \/ ParseTxt \/ ParseMd

SpecParse == ParseInit /\ [][ParseNext]_vars

\* the text has a character that is not whitespace
HasText(text) == \E j \in 1..Len(text) : text[j].k \in {"num", "time", "word", "id", "cap"}

\* the subtitle blocks / paragraphs of a content whose text is not empty
\* after whitespace normalization: what split("\n\n") cuts, blank after blank
TextPieces(content) ==
    LET pieces == SplitBlank(content)
        Texty(p) == \E j \in 1..Len(p) : p[j].k \in {"num", "word", "id", "cap", "time"}
    IN  SelectSeq(pieces, Texty)

\* C21: every segment a parser (_parse_srt, _parse_txt, _parse_md) returns has
\* non-empty normalized text, free of whitespace at both ends, and a parser
\* returns no more segments than the content has blocks or paragraphs with text:
\* a block or paragraph that is empty after normalization gives no segment.
C21_TextNeverEmpty ==
    (parse.on /\ parse.by # "none") =>
        /\ \A j \in 1..Len(parse.out) :
             /\ parse.out[j].text # <<>>
             /\ HasText(parse.out[j].text)
             /\ \A i \in 1..Len(parse.out[j].text) :
                  parse.out[j].text[i].k \notin {"ws", "blank"}
        /\ Len(parse.out) <= Len(TextPieces(parse.content))

\* a content with a whitespace-only paragraph and a subtitle block of text was
\* parsed: the paragraph gave no segment, the block gave one
C21_Witness ==
    /\ parse.on
    /\ parse.by = "_parse_srt"
    /\ parse.content = << Ws, Blank, Time(1000, 2000), Word("hello") >>
    /\ Len(parse.out) = 1

(* ------------------------------------------------------------------ *)
(* The RoleArena story state (adk_sim/rolearena_state.py)              *)
(* ------------------------------------------------------------------ *)

\* a plot node: its id and its exit conditions (two for each standard node);
\* beat, goal and stakes are prose no operation reads
Node(i) == [id |-> i, exit_conditions |-> {1, 2}]

\* the standard 9-node arc of _generate_gl_plot_nodes, ids 0..8
StandardNodes == [i \in 1..9 |-> Node(i - 1)]

\* nodes[:n] of Python: the first n items, for negative n all but the last -n
SliceTo(nodes, n) ==
    LET stop == IF n >= 0 THEN Min(n, Len(nodes))
                ELSE IF Len(nodes) + n > 0 THEN Len(nodes) + n ELSE 0
    IN  SubSeq(nodes, 1, stop)

_generate_gl_plot_nodes(num_nodes) ==
    IF num_nodes < Len(StandardNodes) THEN SliceTo(StandardNodes, num_nodes)
    ELSE StandardNodes

_pace_to_budgets(pace) ==
    IF pace = "slow"
    THEN [turn_budget |-> [min |-> 50, max |-> 90],
          node_budget |-> [min |-> 3, target |-> 5, hard_cap |-> 7]]
    ELSE IF pace = "fast"
    THEN [turn_budget |-> [min |-> 28, max |-> 55],
          node_budget |-> [min |-> 2, target |-> 3, hard_cap |-> 5]]
    ELSE [turn_budget |-> [min |-> 40, max |-> 75],
          node_budget |-> [min |-> 3, target |-> 4, hard_cap |-> 6]]

\* controls: None, or a dict whose pace is the string given
NoControls == "None"
PaceOf(controls) == IF controls = NoControls THEN "slow" ELSE controls

\* "node_idx": 0
InitialNodeIdx(nodes) == 0

\* init_rolearena_story_state: the state returned, or raised when nodes[0]
\* of the closing log line does not exist.  quality_flags in tenths;
\* narrations, outbox and history are what the tools append to; keys tells
\* which of "outbox" and "history" the state has (the story state has neither).
init_rolearena_story_state(controls, num_nodes) ==
    LET budgets == _pace_to_budgets(PaceOf(controls))
        nodes == _generate_gl_plot_nodes(num_nodes)
    IN  IF nodes = <<>> THEN [ev |-> "raised"]
        ELSE [ev |-> "returned",
              state |-> [plot |-> [nodes |-> nodes,
                                   node_idx |-> InitialNodeIdx(nodes),
                                   node_turns |-> 0,
                                   total_turns |-> 0,
                                   turn_budget |-> budgets.turn_budget,
                                   node_budget |-> budgets.node_budget],
                         quality_flags |-> [plot_stall_risk |-> 0],
                         advance_candidate |-> FALSE,
                         critic_approved |-> FALSE,
                         narrations |-> <<>>,
                         keys |-> {},
                         outbox |-> <<>>,
                         history |-> <<>>]]

NoNode == [id |-> 0 - 1, exit_conditions |-> {}]

\* get_current_node: nodes[node_idx], None outside the list
get_current_node(state) ==
    IF 0 <= state.plot.node_idx /\ state.plot.node_idx < Len(state.plot.nodes)
    THEN state.plot.nodes[state.plot.node_idx + 1]
    ELSE NoNode

\* largest num_nodes asked for in SpecStoryInit
MaxNodesAsked == 12

AskedNodes == (0 - 10)..MaxNodesAsked
AskedControls == {NoControls, "slow", "med", "fast", "brisk"}

\* a caller is about to initialise a story
StoryInitInit ==
    /\ cls = "RAGIndex"
    /\ dir = EmptyDir
    /\ metaFile = Absent
    /\ embFile = Absent
    /\ segFile = Absent
    /\ segs = <<>>
    /\ emb = None
    /\ task = [t \in Tasks |-> IdleTask]
    /\ last = NoStep
    /\ cacheOf = NoBuild
    /\ probe = NoProbe
    /\ query = NoQuery
    /\ parse = NoParse
    /\ render = NoRender
    /\ session = NoSession
    /\ \E c \in AskedControls : \E n \in AskedNodes :
         story = [on |-> FALSE, ask |-> [controls |-> c, num_nodes |-> n]]

InitStory ==
    /\ ~story.on
    /\ LET res == init_rolearena_story_state(story.ask.controls, story.ask.num_nodes)
       IN  story' = [on |-> TRUE, ask |-> story.ask, ev |-> res.ev,
                     state |-> IF res.ev = "returned" THEN res.state ELSE <<>>,
                     read |-> FALSE, current |-> NoNode]
    /\ UNCHANGED <<index, parse, render, session>>

\* the caller reads the current node of the state it was given
GetCurrentNode ==
    /\ story.on
    /\ story.ev = "returned"
    /\ ~story.read
    /\ story' = [story EXCEPT !.read = TRUE, !.current = get_current_node(story.state)]
    /\ UNCHANGED <<index, parse, render, session>>

StoryInitNext == InitStory \/ GetCurrentNode

SpecStoryInit == StoryInitInit /\ [][StoryInitNext]_vars

\* the ids of the nodes are 0..k-1 in order
IdsInOrder(nodes, k) == Len(nodes) = k /\ \A i \in 1..k : nodes[i].id = i - 1

\* the counters of a fresh state, and the current node is node 0
Fresh(st) ==
    /\ st.state.plot.node_idx = 0
    /\ st.state.plot.node_turns = 0
    /\ st.state.plot.total_turns = 0
    /\ (st.read => st.current.id = 0)

\* C24: init_rolearena_story_state(num_nodes = n) returns a state
\* with exactly n plot nodes, ids 0..n-1 in order, node_idx = node_turns =
\* total_turns = 0, and get_current_node returns node 0.
C24_ExactlyNNodes ==
    story.on =>
        /\ story.ev = "returned"
        /\ IdsInOrder(story.state.plot.nodes, story.ask.num_nodes)
        /\ Fresh(story)

(* ------------------------------------------------------------------ *)
(* Session state helpers (adk_sim/state.py)                            *)
(* ------------------------------------------------------------------ *)

\* the history keeps this many messages of a room (50 in the code), scaled down
HistoryLimit == 2

\* s[-n:] of Python for n > 0
LastN(s, n) == IF Len(s) > n THEN SubSeq(s, Len(s) - n + 1, Len(s)) ELSE s

\* (mutant) the outbox is replaced by the one event
ReplaceOutbox(state, event) ==
    [state EXCEPT !.keys = @ \cup {"outbox"}, !.outbox = <<event>>]

\* add_to_outbox: a new list, the old events and the event after them
add_to_outbox(state, event) ==
    [state EXCEPT !.keys = @ \cup {"outbox"},
                  !.outbox = IF "outbox" \in state.keys THEN Append(@, event) ELSE <<event>>]

Message(room, sender, text, now) ==
    [type |-> "message", room |-> room, from |-> sender, text |-> text, ts |-> now]

\* add_message: [ev, state]; state["history"] of a state without the key raises
add_message(state, room, sender, text, now) ==
    IF "history" \notin state.keys THEN [ev |-> "raised", state |-> state]
    ELSE
      LET msg == Message(room, sender, text, now)
          h == state.history
          old == IF room \in DOMAIN h THEN h[room] ELSE <<>>
          kept == LastN(Append(old, msg), HistoryLimit)
          h2 == [r \in DOMAIN h \cup {room} |-> IF r = room THEN kept ELSE h[r]]
      IN  [ev |-> "returned", state |-> add_to_outbox([state EXCEPT !.history = h2], msg)]

\* f"dm:{agent_name}"
DmRoom(agent_name) ==
    CASE agent_name = "A1" -> "dm:A1"
      [] agent_name = "A2" -> "dm:A2"
      [] OTHER -> "dm:You"

\* add_dm: the room is keyed by the agent of the conversation
add_dm(state, from_user, to_agent, text, now) ==
    LET agent_name == IF from_user = "You" THEN to_agent ELSE from_user
    IN  add_message(state, DmRoom(agent_name), from_user, text, now)

(* ------------------------------------------------------------------ *)
(* The story state in play: turns and plot advancement                 *)
(* ------------------------------------------------------------------ *)

\* nodes asked for when the story of SpecStory is initialised
MaxStoryNodes == 3
\* turns played in SpecStory
MaxStoryTurns == 3

\* the node is the last one of the plot (or there is none after it)
AtFinalNode(plot) == plot.node_idx >= Len(plot.nodes) - 1

\* (mutant) the turn counter of the node is kept across the advance
AdvanceKeepsTurns(state, bridge_narration) ==
    IF AtFinalNode(state.plot) THEN state
    ELSE [state EXCEPT !.plot.node_idx = @ + 1]

\* advance_plot_node
advance_plot_node(state, bridge_narration) ==
    IF AtFinalNode(state.plot) THEN state
    ELSE LET moved == [state EXCEPT !.plot.node_idx = @ + 1, !.plot.node_turns = 0]
         IN  IF bridge_narration # ""
             THEN [moved EXCEPT !.narrations = Append(@, "bridge")]
             ELSE moved

\* (mutant) only the turn counter of the node is incremented
IncrementNodeTurnOnly(state) == [state EXCEPT !.plot.node_turns = @ + 1]

\* increment_turn
increment_turn(state) ==
    [state EXCEPT !.plot.node_turns = @ + 1, !.plot.total_turns = @ + 1]

\* emit_narration (rolearena_tools.py): the narration is stored, emitted and
\* added to the room history
emit_narration(state, narration_type, room) ==
    LET stored == [state EXCEPT !.narrations = Append(@, narration_type)]
        emitted == add_to_outbox(stored, [type |-> "narration", room |-> room])
    IN  add_message(emitted, room, "Narrator", "narration", 0)

\* advance_plot (rolearena_tools.py): [ev, status, state]
advance_plot(state, approve, bridge_narration, room) ==
    IF ~approve
    THEN [ev |-> "returned", status |-> "rejected",
          state |-> [state EXCEPT !.advance_candidate = FALSE, !.critic_approved = FALSE]]
    ELSE IF AtFinalNode(state.plot)
    THEN [ev |-> "returned", status |-> "at_final_node", state |-> state]
    ELSE
      LET moved == advance_plot_node(state, bridge_narration)
          told == IF bridge_narration # "" THEN emit_narration(moved, "bridge", room)
                  ELSE [ev |-> "returned", state |-> moved]
          reset == [told.state EXCEPT !.advance_candidate = FALSE,
                                      !.critic_approved = FALSE]
      IN  IF told.ev = "raised"
          THEN [ev |-> "raised", status |-> "none", state |-> told.state]
          ELSE [ev |-> "returned", status |-> "advanced",
                state |-> add_to_outbox(reset, [type |-> "plot_advance", room |-> room])]

\* update_env_turn_plan (rolearena_tools.py): the advance candidate flag of the plan
update_env_turn_plan(state, candidate) == [state EXCEPT !.advance_candidate = candidate]

NoCalls == [incs |-> 0, since |-> 0, peak |-> 0]
NoOp == [op |-> "none"]

\* a story initialised for a pace and a number of nodes, nothing played yet
StoryInit ==
    /\ cls = "RAGIndex"
    /\ dir = EmptyDir
    /\ metaFile = Absent
    /\ embFile = Absent
    /\ segFile = Absent
    /\ segs = <<>>
    /\ emb = None
    /\ task = [t \in Tasks |-> IdleTask]
    /\ last = NoStep
    /\ cacheOf = NoBuild
    /\ probe = NoProbe
    /\ query = NoQuery
    /\ parse = NoParse
    /\ render = NoRender
    /\ session = NoSession
    /\ \E c \in {"slow", "fast"} : \E n \in 1..MaxStoryNodes :
         story = [on |-> TRUE, ev |-> "returned",
                  state |-> init_rolearena_story_state(c, n).state,
                  calls |-> NoCalls, did |-> NoOp]

\* a call on the story state ends: the state it leaves, what the call was and
\* what it found (history), and the counts of calls made so far (history)
Played(op, arg, ev, after, moved, turned) ==
    /\ story' = [story EXCEPT
                   !.state = after,
                   !.did = [op |-> op, arg |-> arg, ev |-> ev, before |-> story.state],
                   !.calls = [incs |-> IF turned THEN @.incs + 1 ELSE @.incs,
                              since |-> IF moved THEN 0
                                        ELSE IF turned THEN @.since + 1 ELSE @.since,
                              peak |-> IF after.plot.node_idx > @.peak
                                       THEN after.plot.node_idx ELSE @.peak]]
    /\ UNCHANGED <<index, parse, render, session>>

\* increment_turn, directly or as the tool increment_story_turn, while fewer
\* than bound turns were played
IncrementTurnWithin(bound) ==
    /\ story.on
    /\ story.state.plot.total_turns < bound
    /\ Played("increment_turn", "", "returned", increment_turn(story.state), FALSE, TRUE)

IncrementTurn == IncrementTurnWithin(MaxStoryTurns)

AdvancePlotNode(bridge_narration) ==
    /\ story.on
    /\ LET after == advance_plot_node(story.state, bridge_narration)
       IN  Played("advance_plot_node", bridge_narration, "returned", after,
                  after.plot.node_idx # story.state.plot.node_idx, FALSE)

\* the tool advance_plot with the verdict of the critic
AdvancePlot(approve, bridge_narration) ==
    /\ story.on
    /\ LET res == advance_plot(story.state, approve, bridge_narration, "group_chat")
       IN  Played("advance_plot", <<approve, bridge_narration>>, res.ev, res.state,
                  res.state.plot.node_idx # story.state.plot.node_idx, FALSE)

UpdateEnvTurnPlan(candidate) ==
    /\ story.on
    /\ story.state.advance_candidate # candidate
    /\ Played("update_env_turn_plan", candidate, "returned",
              update_env_turn_plan(story.state, candidate), FALSE, FALSE)

StoryNext ==
    \/ IncrementTurn
    \/ \E b \in {"", "later"} : AdvancePlotNode(b)
    \/ \E a \in BOOLEAN : \E b \in {"", "later"} : AdvancePlot(a, b)
    \/ \E c \in BOOLEAN : UpdateEnvTurnPlan(c)

SpecStory == StoryInit /\ [][StoryNext]_vars

\* the step just taken was a call of advance_plot_node
AdvancedNode == story.on /\ story.did.op = "advance_plot_node"

\* C22: advance_plot_node at a node that is not the last increases node_idx by
\* exactly 1, resets node_turns to 0 and leaves total_turns and the node list
\* unchanged; at the last node it changes nothing in the state.
C22_AdvanceByOne ==
    AdvancedNode =>
        LET before == story.did.before
            after == story.state
        IN  IF before.plot.node_idx < Len(before.plot.nodes) - 1
            THEN /\ after.plot.node_idx = before.plot.node_idx + 1
                 /\ after.plot.node_turns = 0
                 /\ after.plot.total_turns = before.plot.total_turns
                 /\ after.plot.nodes = before.plot.nodes
            ELSE after = before

\* advance_plot_node was called after turns were played at a node that is not
\* the last
C22_Witness ==
    /\ AdvancedNode
    /\ story.did.before.plot.node_turns > 0
    /\ story.did.before.plot.node_idx < Len(story.did.before.plot.nodes) - 1
    /\ story.state.plot.node_idx = 1

\* C29: after any sequence of increment_turn and advance_plot_node calls on an
\* initialised state, 0 <= node_idx <= len(nodes) - 1, node_idx has never
\* decreased (it is the largest value it ever had), total_turns is the number
\* of increment_turn calls, node_turns the number of them since the last
\* advance that changed node_idx, and node_turns <= total_turns.
C29_CountersTrackCalls ==
    story.on =>
        LET plot == story.state.plot
        IN  /\ 0 <= plot.node_idx
            /\ plot.node_idx <= Len(plot.nodes) - 1
            /\ plot.node_idx = story.calls.peak
            /\ plot.total_turns = story.calls.incs
            /\ plot.node_turns = story.calls.since
            /\ plot.node_turns <= plot.total_turns

\* turns were played before and after an advance
C29_Witness ==
    /\ story.on
    /\ story.state.plot.node_idx = 1
    /\ story.state.plot.node_turns = 1
    /\ story.state.plot.total_turns = 3

(* ------------------------------------------------------------------ *)
(* The advance judge (adk_sim/agents/rolearena_agents.py)              *)
(* ------------------------------------------------------------------ *)

\* turns played at one node in SpecAdvance
MaxNodeTurns == 8

\* update_quality_flags: plot_stall_risk in tenths
update_quality_flags(state, stall) == [state EXCEPT !.quality_flags.plot_stall_risk = stall]

\* a recent dialogue: whether it is the empty string, and the exit conditions
\* (by position) of which it contains a keyword, i.e. a word longer than 3
Dialogues ==
    {[empty |-> TRUE, met |-> {}]} \cup {[empty |-> FALSE, met |-> m] : m \in SUBSET {1, 2}}

\* plot_stall_risk values: 0.0, 0.6, 0.7
StallRisks == {0, 6, 7}

\* (mutant) the semantic check alone advances, whatever the turns played
DecisionIgnoresMinimum(heuristic_advance, semantic_advance, node_turns, min_turns) ==
    heuristic_advance \/ semantic_advance

\* heuristic_advance or (node_turns >= min_turns and semantic_advance)
FinalDecision(heuristic_advance, semantic_advance, node_turns, min_turns) ==
    heuristic_advance \/ (node_turns >= min_turns /\ semantic_advance)

\* should_advance_node: the dict it returns (reason as the branch taken)
should_advance_node(state, recent_dialogue) ==
    LET plot == state.plot
        node_turns == plot.node_turns
        min_turns == plot.node_budget.min
        target_turns == plot.node_budget.target
        hard_cap == plot.node_budget.hard_cap
        current_node == IF plot.node_idx < Len(plot.nodes)
                        THEN plot.nodes[plot.node_idx + 1] ELSE NoNode
        heuristic_advance == node_turns >= hard_cap
        exit_conditions == current_node.exit_conditions
        conditions_met == Cardinality(exit_conditions \cap recent_dialogue.met)
        semantic_advance ==
            /\ exit_conditions # {}
            /\ ~recent_dialogue.empty
            /\ conditions_met >= Cardinality(exit_conditions) \div 2
        decided == FinalDecision(heuristic_advance, semantic_advance, node_turns, min_turns)
        stagnation == node_turns >= target_turns /\ state.quality_flags.plot_stall_risk > 6
    IN  IF current_node = NoNode
        THEN [should_advance |-> FALSE, reason |-> "no_current_node",
              heuristic |-> FALSE, semantic |-> FALSE]
        ELSE [should_advance |-> decided \/ stagnation,
              reason |-> IF stagnation THEN "stagnation"
                         ELSE IF heuristic_advance THEN "hard_cap"
                         ELSE IF node_turns < min_turns THEN "below_min" ELSE "in_range",
              heuristic |-> heuristic_advance, semantic |-> semantic_advance]

\* a story of the default 9 nodes, initialised with any controls
AdvanceInit ==
    /\ cls = "RAGIndex"
    /\ dir = EmptyDir
    /\ metaFile = Absent
    /\ embFile = Absent
    /\ segFile = Absent
    /\ segs = <<>>
    /\ emb = None
    /\ task = [t \in Tasks |-> IdleTask]
    /\ last = NoStep
    /\ cacheOf = NoBuild
    /\ probe = NoProbe
    /\ query = NoQuery
    /\ parse = NoParse
    /\ render = NoRender
    /\ session = NoSession
    /\ \E c \in AskedControls :
         story = [on |-> TRUE, ev |-> "returned",
                  state |-> init_rolearena_story_state(c, 9).state,
                  calls |-> NoCalls, did |-> NoOp]

PlayTurn == IncrementTurnWithin(MaxNodeTurns)

UpdateQualityFlags(stall) ==
    /\ story.on
    /\ story.state.quality_flags.plot_stall_risk # stall
    /\ Played("update_quality_flags", stall, "returned",
              update_quality_flags(story.state, stall), FALSE, FALSE)

\* the judge is asked; it assigns nothing in the state
ShouldAdvance(recent_dialogue) ==
    /\ story.on
    /\ story' = [story EXCEPT
                   !.did = [op |-> "should_advance_node", arg |-> recent_dialogue,
                            ev |-> "returned", before |-> story.state,
                            ret |-> should_advance_node(story.state, recent_dialogue)]]
    /\ UNCHANGED <<index, parse, render, session>>

AdvanceNext ==
    \/ PlayTurn
    \/ \E r \in StallRisks : UpdateQualityFlags(r)
    \/ \E d \in Dialogues : ShouldAdvance(d)

SpecAdvance == AdvanceInit /\ [][AdvanceNext]_vars

Judged == story.on /\ story.did.op = "should_advance_node"

\* C23: for a node budget of any pace and an existing current node,
\* should_advance_node returns should_advance = False whenever node_turns is
\* below the budget minimum and True whenever node_turns has reached the hard
\* cap, for every dialogue and every value of the quality flags.
C23_MinAndHardCap ==
    (Judged /\ get_current_node(story.state) # NoNode) =>
        LET plot == story.state.plot
        IN  /\ plot.node_turns < plot.node_budget.min => ~story.did.ret.should_advance
            /\ plot.node_turns >= plot.node_budget.hard_cap => story.did.ret.should_advance

\* below the minimum the judge said no although the dialogue met both exit
\* conditions and the stall risk was high
C23_Witness ==
    /\ Judged
    /\ story.state.plot.node_turns = 2
    /\ story.state.plot.node_budget.min = 3
    /\ story.did.arg = [empty |-> FALSE, met |-> {1, 2}]
    /\ story.state.quality_flags.plot_stall_risk = 7
    /\ ~story.did.ret.should_advance

(* ------------------------------------------------------------------ *)
(* The session state in use: messages and direct messages              *)
(* ------------------------------------------------------------------ *)

\* calls of add_message / add_dm made in SpecSession
MaxSessionCalls == 4

\* the rooms of config "room_desc"
ConfigRooms == {"group_chat", "cafe", "apartment"}

\* get_initial_state: an empty history for every room, an empty outbox
get_initial_state ==
    [keys |-> {"history", "outbox"},
     history |-> [r \in ConfigRooms |-> <<>>],
     outbox |-> <<>>]

\* the session just created; log (history): the messages of all calls so far
SessionInit ==
    /\ cls = "RAGIndex"
    /\ dir = EmptyDir
    /\ metaFile = Absent
    /\ embFile = Absent
    /\ segFile = Absent
    /\ segs = <<>>
    /\ emb = None
    /\ task = [t \in Tasks |-> IdleTask]
    /\ last = NoStep
    /\ cacheOf = NoBuild
    /\ probe = NoProbe
    /\ query = NoQuery
    /\ parse = NoParse
    /\ render = NoRender
    /\ story = NoStory
    /\ session = [on |-> TRUE, state |-> get_initial_state, log |-> <<>>, op |-> "none"]

\* a call ends, made when the clock (time.time()) showed now
Sent(op, res, msg) ==
    /\ session' = [session EXCEPT !.state = res.state, !.log = Append(@, msg), !.op = op]
    /\ UNCHANGED <<index, parse, render, story>>

AddMessage(room, sender, text) ==
    /\ session.on
    /\ Len(session.log) < MaxSessionCalls
    /\ LET now == Len(session.log) + 1
       IN  Sent("add_message", add_message(session.state, room, sender, text, now),
                Message(room, sender, text, now))

AddDm(from_user, to_agent, text) ==
    /\ session.on
    /\ Len(session.log) < MaxSessionCalls
    /\ LET now == Len(session.log) + 1
           agent_name == IF from_user = "You" THEN to_agent ELSE from_user
       IN  Sent("add_dm", add_dm(session.state, from_user, to_agent, text, now),
                Message(DmRoom(agent_name), from_user, text, now))

SessionNext ==
    \/ \E room \in {"group_chat", "lobby", "dm:A1"} : AddMessage(room, "A1", "hi")
    \/ \E from_user \in {"You", "A1"} : \E to_agent \in {"A1", "A2"} :
         AddDm(from_user, to_agent, "hi")

SpecSession == SessionInit /\ [][SessionNext]_vars

\* C30: after any sequence of add_message and add_dm calls the history of
\* every room holds at most the limit of messages (50 in the code), namely the
\* most recent messages of that room in arrival order, and the outbox holds
\* one event per call, the message of that call, in call order: no earlier
\* event was removed or moved.
C30_HistoryBoundedOutboxComplete ==
    session.on =>
        /\ session.state.outbox = session.log
        /\ \A r \in DOMAIN session.state.history :
             LET InRoom(m) == m.room = r
                 mine == SelectSeq(session.log, InRoom)
                 h == session.state.history[r]
             IN  /\ Len(h) <= HistoryLimit
                 /\ Len(h) = Min(Len(mine), HistoryLimit)
                 /\ \A i \in 1..Len(h) : h[i] = mine[Len(mine) - Len(h) + i]
        /\ \A i \in 1..Len(session.log) :
             session.log[i].room \in DOMAIN session.state.history

\* a direct-message room received more messages than the history keeps, by
\* add_dm and add_message both, and its oldest message was dropped
C30_Witness ==
    /\ session.on
    /\ "dm:A1" \in DOMAIN session.state.history
    /\ Len(session.state.history["dm:A1"]) = HistoryLimit
    /\ session.state.history["dm:A1"][1].ts > 1
    /\ session.log[1].room = "dm:A1"
    /\ \E i \in 1..Len(session.log) : session.log[i].room = "group_chat"

(* ------------------------------------------------------------------ *)
(* The batches of a rebuild                                            *)
(* ------------------------------------------------------------------ *)

\* ceil(n / b)
Ceil(n, b) == (n + b - 1) \div b

InstantOf(tc) ==
    LET mmm == tc % 1000
        hms == tc \div 1000
    IN  ((hms \div 10000) * 3600 + ((hms \div 100) % 100) * 60 + (hms % 100)) * 1000 + mmm

\* C26: search_frames_by_timestamp gives for 'HH:MM:SS.mmm' the result of
\* 'HH:MM:SS,mmm' and for bare 'HH:MM:SS' the result of 'HH:MM:SS,000'; the
\* target of each spelling is HH*3600 + MM*60 + SS + mmm/1000 seconds: every
\* hit lies within the tolerance of that instant and carries the score of its
\* distance from it.
C26_SpellingsAlike ==
    (query.op = "frames" /\ query.args[1].form \in {"comma", "dot", "plain"}) =>
        LET ts == query.args[1]
            tol == query.args[2]
            instant == InstantOf(ts.tc)
        IN  /\ query.ev = "returned"
            /\ query.hits = search_frames_by_timestamp(segs, Stamp("comma", ts.tc), tol).hits
            /\ TargetOf(ts) = [ok |-> TRUE, secs |-> instant]
            /\ \A i \in 1..Len(query.hits) :
                 LET at == TimeMatch(query.hits[i].seg.raw).secs
                 IN  /\ Abs(at - instant) <= tol
                     /\ query.hits[i].score = Proximity(Abs(at - instant))

\* the dotted spelling "00:00:06.500" found the frames at 6 s and at 16 s
C26_Witness ==
    /\ query.op = "frames"
    /\ query.ev = "returned"
    /\ query.args[1] = Stamp("dot", 6500)
    /\ Len(query.hits) = 2

(* ------------------------------------------------------------------ *)
(* The transcript renderer                                             *)
(* ------------------------------------------------------------------ *)

\* most hits handed to the renderer in SpecRender
MaxRenderHits == 3

\* three subtitle blocks out of time order, two of them starting together
SrtScene == << Num(1), Time(12500, 13000), Word("bye"), Blank,
               Num(2), Time(10000, 12000), Word("hello"), Blank,
               Num(3), Time(10000, 11000), Word("hallo") >>

\* the segments hits are made of: three subtitle lines and a paragraph
RenderSegs ==
    WalkSegs(<< [path |-> SrtPath, content |-> SrtScene],
                [path |-> TxtPath, content |-> << Word("hello") >>] >>)

HitScores == {Frac(2, 1), Frac(1, 2)}

RECURSIVE HitLists(_)
\* the hit lists of up to n hits over distinct segments, any order, any scores
HitLists(n) ==
    IF n = 0 THEN {<<>>}
    ELSE LET shorter == HitLists(n - 1)
             longest == {hs \in shorter : Len(hs) = n - 1}
             more == {t \in longest \X HitScores \X (1..Len(RenderSegs)) :
                        \A i \in 1..Len(t[1]) : t[1][i].seg # RenderSegs[t[3]]}
         IN  shorter \cup {Append(t[1], Hit(t[2], RenderSegs[t[3]])) : t \in more}

RenderMaxLines == {0, 1, 2, 6}

IsSrtHit(h) == h.seg.metadata.type = "srt"

RECURSIVE InsertByStart(_, _)
InsertByStart(sorted, h) ==
    IF sorted = <<>> THEN <<h>>
    ELSE IF h.seg.metadata.start_s < Head(sorted).seg.metadata.start_s THEN <<h>> \o sorted
    ELSE <<Head(sorted)>> \o InsertByStart(Tail(sorted), h)

\* (mutant) the hits stay in the order given
KeepOrderGiven(hs) == hs

RECURSIVE SortByStart(_)
\* list.sort(key=start_s): ascending, equal start times in the order given
SortByStart(hs) ==
    IF hs = <<>> THEN <<>>
    ELSE InsertByStart(SortByStart(SubSeq(hs, 1, Len(hs) - 1)), hs[Len(hs)])

\* "(no transcript lines found)"
Placeholder == << [placeholder |-> TRUE] >>

\* f'{start_tc}: "{txt}"'
SceneLine(s) == [placeholder |-> FALSE, start_tc |-> s.metadata.start_tc, txt |-> s.raw]

\* render_transcript_for_scene: the text returned, as its lines
render_transcript_for_scene(hits, max_lines) ==
    LET srt_segments == SortByStart(SelectSeq(hits, IsSrtHit))
        shown == SliceTo(srt_segments, max_lines)
        lines == [i \in 1..Len(shown) |-> SceneLine(shown[i].seg)]
    IN  IF lines # <<>> THEN lines ELSE Placeholder

\* a caller holds hits and a max_lines
RenderInit ==
    /\ cls = "RAGIndex"
    /\ dir = EmptyDir
    /\ metaFile = Absent
    /\ embFile = Absent
    /\ segFile = Absent
    /\ segs = <<>>
    /\ emb = None
    /\ task = [t \in Tasks |-> IdleTask]
    /\ last = NoStep
    /\ cacheOf = NoBuild
    /\ probe = NoProbe
    /\ query = NoQuery
    /\ parse = NoParse
    /\ story = NoStory
    /\ session = NoSession
    /\ \E hs \in HitLists(MaxRenderHits) : \E m \in RenderMaxLines :
         render = [on |-> TRUE, hits |-> hs, max_lines |-> m, done |-> FALSE, out |-> <<>>]

RenderTranscript ==
    /\ render.on
    /\ ~render.done
    /\ render' = [render EXCEPT !.done = TRUE,
                    !.out = render_transcript_for_scene(render.hits, render.max_lines)]
    /\ UNCHANGED <<index, parse, story, session>>

RenderNext == RenderTranscript

SpecRender == RenderInit /\ [][RenderNext]_vars

Rendered == render.on /\ render.done

\* the subtitle-kind hits given
SrtGiven == SelectSeq(render.hits, IsSrtHit)

\* every line shown is the line of a subtitle-kind hit given, the lines are in
\* non-decreasing start-time order and there are at most max_lines of them
ShownFromSrtInOrder(lines) ==
    /\ \A i \in 1..Len(lines) :
         \E j \in 1..Len(SrtGiven) : lines[i] = SceneLine(SrtGiven[j].seg)
    /\ \A i, j \in 1..Len(lines) :
         i < j => _tc_to_seconds(lines[i].start_tc) <= _tc_to_seconds(lines[j].start_tc)
    /\ Len(lines) <= render.max_lines

\* C27: render_transcript_for_scene renders only subtitle-kind hits, in
\* non-decreasing start-time order whatever the order and scores given, at
\* most max_lines of them, and returns the placeholder exactly when no
\* subtitle-kind hit is given.
C27_PlaceholderIffNoSrt ==
    Rendered =>
        /\ render.out # Placeholder => ShownFromSrtInOrder(render.out)
        /\ render.out = Placeholder <=> SrtGiven = <<>>

\* C27 amended: for max_lines >= 0 it renders only subtitle-kind hits, in
\* non-decreasing start-time order whatever the order and scores given,
\* namely the min(max_lines, number of subtitle-kind hits) earliest of them,
\* and returns the placeholder exactly when it renders no line: when no
\* subtitle-kind hit is given or max_lines is 0.
C27_PlaceholderIffNothingShown ==
    Rendered =>
        /\ render.out # Placeholder =>
             /\ ShownFromSrtInOrder(render.out)
             /\ Len(render.out) = Min(render.max_lines, Len(SrtGiven))
             /\ \A j \in 1..Len(SrtGiven) :
                  (\A i \in 1..Len(render.out) : render.out[i] # SceneLine(SrtGiven[j].seg))
                  => _tc_to_seconds(render.out[Len(render.out)].start_tc)
                       <= SrtGiven[j].seg.metadata.start_s
        /\ render.out = Placeholder <=> (SrtGiven = <<>> \/ render.max_lines = 0)

\* three hits given latest first, a paragraph among them, two lines rendered
C27_Witness ==
    /\ Rendered
    /\ Len(render.hits) = 3
    /\ Len(SrtGiven) = 2
    /\ SrtGiven[1].seg.metadata.start_s > SrtGiven[2].seg.metadata.start_s
    /\ render.max_lines = 2
    /\ Len(render.out) = 2
    /\ render.out # Placeholder

(* ------------------------------------------------------------------ *)
(* Two callers of load_directory on the one shared index               *)
(* ------------------------------------------------------------------ *)

\* the subtitle files uploaded in SpecOverlap
OverlapCorpus == {SrtHello, SrtShort}

\* the server has started: the directory holds a file, nothing is built yet
OverlapInit ==
    /\ cls = "RAGIndex"
    /\ dir = [exists |-> TRUE, files |-> << [path |-> SrtPath, content |-> SrtShort] >>]
    /\ metaFile = Absent
    /\ embFile = Absent
    /\ segFile = Absent
    /\ segs = <<>>
    /\ emb = None
    /\ task = [t \in Tasks |-> IdleTask]
    /\ last = NoStep
    /\ cacheOf = NoBuild
    /\ probe = NoProbe
    /\ query = NoQuery
    /\ Unused

\* upload_rag_file writes the file and calls load_directory(force_rebuild =
\* True); select_rag_dir and run_job call it too; none takes a lock
OverlapNext ==
    \/ \E c \in OverlapCorpus : WriteFile(SrtPath, c)
    \/ \E t \in Tasks : \E force \in BOOLEAN : Call(t, force)
    \/ \E t \in Tasks : EmbedReturns(t)
    \/ \E t \in Tasks : FinishBuild(t)

SpecOverlap == OverlapInit /\ [][OverlapNext]_vars

\* no call is in progress
Quiet == \A t \in Tasks : task[t].pc = "idle"

\* the segment list and the matrix in memory come from one build
MemoryOfOneBuild ==
    IF segs = <<>> THEN emb = None
    ELSE emb.st = "ok" /\ emb.rows = RowsOf(segs)

\* the three artifacts hold the fingerprint, the matrix and the records of
\* one build
CacheOfOneBuild ==
    (metaFile.st = "ok" /\ embFile.st = "ok" /\ segFile.st = "ok") =>
        LET recs == [j \in 1..Len(segFile.lines) |-> LoadSeg(segFile.lines[j])]
        IN  /\ ~segFile.torn
            /\ metaFile.fingerprint = _fingerprint(recs)
            /\ metaFile.count = Len(recs)
            /\ embFile.rows = RowsOf(recs)

\* C28: when two load_directory calls on the shared index overlap, then after
\* both have returned the segment list and the matrix in memory belong to one
\* build and the cache artifacts hold the fingerprint, the matrix and the
\* segment records of one single build.
C28_OverlapConsistent ==
    (Quiet /\ last.ev = "returned" /\ last.overlapped) =>
        /\ MemoryOfOneBuild
        /\ CacheOfOneBuild
====
